---- MODULE Spec2Model ----
(***************************************************************************)
(* SOLPRISM x AgentShield: reasoning-trace construction, canonical         *)
(* hashing, the SolprismShield commitment store and its verification       *)
(* (src/src/solprism.ts).                                                  *)
(*                                                                         *)
(* JavaScript values are modelled as tagged records so that the insertion  *)
(* order of an object's keys is part of the value: an object is a sequence *)
(* of <<key, value>> pairs, an array is a sequence of values.              *)
(***************************************************************************)
EXTENDS Integers, Sequences, FiniteSets, TLC

VARIABLES now, results, arrays, snapRef, calls, last

vars == <<now, results, arrays, snapRef, calls, last>>

(***************************************************************************)
(* Bounds of the model.                                                    *)
(***************************************************************************)
\* Date.now() takes the values 0..MaxClock
MaxClock == 1
\* at most MaxCommits CommitmentResult objects are ever allocated
MaxCommits == 2
\* a caller-held snapshot array is grown to at most MaxCommits + MaxSnapExtra
MaxSnapExtra == 1

(***************************************************************************)
(* JavaScript / JSON values.                                               *)
(***************************************************************************)
JStr(s) == [k |-> "str", kv |-> <<>>, n |-> 0, s |-> s]

JNum(n) == [k |-> "num", kv |-> <<>>, n |-> n, s |-> ""]

JBool(b) == [k |-> "bool", kv |-> <<>>, n |-> IF b THEN 1 ELSE 0, s |-> ""]

JObj(kv) == [k |-> "obj", kv |-> kv, n |-> 0, s |-> ""]

JArr(el) == [k |-> "arr", kv |-> el, n |-> 0, s |-> ""]

Range(seq) == {seq[i] : i \in 1..Len(seq)}

\* Object.keys(o): the own property names in insertion order
ObjectKeys(o) == [i \in 1..Len(o.kv) |-> o.kv[i][1]]

HasKey(o, key) == \E i \in 1..Len(o.kv) : o.kv[i][1] = key

\* o[key] for a key the object has
Get(o, key) == o.kv[CHOOSE i \in 1..Len(o.kv) : o.kv[i][1] = key][2]

\* every property name the traces use, in UTF-16 code unit order: the order
\* Array.prototype.sort() compares strings by
CodeUnitOrder ==
    << "action", "actionChosen", "agent", "alternativesConsidered", "analysis",
       "approved", "confidence", "context", "custom", "dataSources", "decision",
       "description", "executionTimeMs", "expectedOutcome", "inputs", "logic",
       "metadata", "model", "name", "observations", "queriedAt",
       "reasonRejected", "riskAssessment", "scamRisk", "sessionId",
       "stagesPassed", "summary", "timestamp", "totalStages",
       "transactionSignature", "type", "version" >>

Rank(key) == CHOOSE i \in 1..Len(CodeUnitOrder) : CodeUnitOrder[i] = key

RECURSIVE InsertSorted(_, _)
InsertSorted(key, sorted) ==
    IF sorted = <<>> THEN <<key>>
    ELSE IF Rank(key) <= Rank(Head(sorted)) THEN <<key>> \o sorted
    ELSE <<Head(sorted)>> \o InsertSorted(key, Tail(sorted))

\* keys.sort() with the default comparator
RECURSIVE Sort(_)
Sort(keys) ==
    IF keys = <<>> THEN <<>> ELSE InsertSorted(Head(keys), Sort(Tail(keys)))

RECURSIVE Join(_, _)
Join(strs, sep) ==
    IF strs = <<>> THEN ""
    ELSE IF Len(strs) = 1 THEN strs[1]
    ELSE strs[1] \o sep \o Join(Tail(strs), sep)

\* JSON's QuoteJSONString (no character of the traces needs an escape)
Quote(s) == "\"" \o s \o "\""

\* the property list JSON.stringify builds from an array replacer: the
\* array's names, duplicates dropped, first occurrence kept
RECURSIVE PropertyList(_)
PropertyList(replacer) ==
    IF replacer = <<>> THEN <<>>
    ELSE LET rest == PropertyList(SubSeq(replacer, 1, Len(replacer) - 1))
             name == replacer[Len(replacer)]
         IN  IF name \in Range(rest) THEN rest ELSE Append(rest, name)

\* SerializeJSONProperty / SerializeJSONObject / SerializeJSONArray of
\* JSON.stringify(value, replacer) with an array replacer: the property list
\* is used for EVERY object met, at every depth, and fixes both which
\* properties are written and their order; array elements are all written
RECURSIVE Serialize(_, _)
Serialize(v, plist) ==
    CASE v.k = "str" -> Quote(v.s)
      [] v.k = "num" -> ToString(v.n)
      [] v.k = "bool" -> IF v.n = 1 THEN "true" ELSE "false"
      [] v.k = "arr" ->
           "[" \o Join([i \in 1..Len(v.kv) |-> Serialize(v.kv[i], plist)], ",")
               \o "]"
      [] v.k = "obj" ->
           LET present == SelectSeq(plist, LAMBDA key : HasKey(v, key))
           IN  "{" \o Join([i \in 1..Len(present) |->
                              Quote(present[i]) \o ":"
                                \o Serialize(Get(v, present[i]), plist)], ",")
                   \o "}"

JSONStringify(value, replacer) == Serialize(value, PropertyList(replacer))

\* crypto.createHash("sha256").update(s).digest("hex"): the digest is
\* modelled as an injective tag of its input (collision-freedom assumed)
sha256(s) == "sha256(" \o s \o ")"

\* the replacer omitted (JSON.stringify(trace)): every object written with
\* its own keys in insertion order
RECURSIVE SerializeOwn(_)
SerializeOwn(v) ==
    CASE v.k = "str" -> Quote(v.s)
      [] v.k = "num" -> ToString(v.n)
      [] v.k = "bool" -> IF v.n = 1 THEN "true" ELSE "false"
      [] v.k = "arr" ->
           "[" \o Join([i \in 1..Len(v.kv) |-> SerializeOwn(v.kv[i])], ",")
               \o "]"
      [] v.k = "obj" ->
           "{" \o Join([i \in 1..Len(v.kv) |->
                          Quote(v.kv[i][1]) \o ":" \o SerializeOwn(v.kv[i][2])],
                       ",")
               \o "}"

\* hashTrace with the .sort() of the replacer forgotten
hashTraceUnsorted(trace) == sha256(JSONStringify(trace, ObjectKeys(trace)))

hashTrace(trace) == sha256(JSONStringify(trace, Sort(ObjectKeys(trace))))

(***************************************************************************)
(* Trace builders.  A TradeDecision is a record; an optional field is a    *)
(* sequence of length 0 (absent) or 1 (present); tokenMint is a sequence   *)
(* of characters so that slice(0, 8) can be taken.  The display glyphs of  *)
(* the template strings (check mark, cross, skip sign, em dash) are        *)
(* written as plain ASCII.                                                 *)
(***************************************************************************)
SOLPRISM_SCHEMA_VERSION == "1.0.0"

\* String.prototype.slice(0, end) on a sequence of characters
Slice(chars, end) ==
    Join(SubSeq(chars, 1, IF Len(chars) < end THEN Len(chars) ELSE end), "")

\* the prefix length of tokenMint.slice(0, 8)
MintPrefixLen == 8

\* the confidence from which an approved trade is rated "low" risk
LowRiskConfidence == 80

\* createFirewallTrace's fixed confidence of an allow and of a deny
FirewallAllowConfidence == 90

FirewallDenyConfidence == 95

ToUpperCase(s) ==
    CASE s = "buy" -> "BUY"
      [] s = "sell" -> "SELL"
      [] s = "hold" -> "HOLD"
      [] s = "safe" -> "SAFE"
      [] s = "suspicious" -> "SUSPICIOUS"
      [] s = "dangerous" -> "DANGEROUS"

\* new Date().toISOString() at clock t (t < 10 milliseconds after the epoch)
ToISOString(t) == "1970-01-01T00:00:00.00" \o ToString(t) \o "Z"

\* predictionStages.every((s) => s.passed): true of the empty list
Every(stages) == \A i \in 1..Len(stages) : stages[i].passed

FailedStages(stages) == SelectSeq(stages, LAMBDA st : ~st.passed)

PassedStages(stages) == SelectSeq(stages, LAMBDA st : st.passed)

StageNames(stages) == [i \in 1..Len(stages) |-> stages[i].name]

\* every() with the empty list refused (a decision without stages rejected)
ApprovedNonEmpty(decision) ==
    /\ decision.predictionStages # <<>>
    /\ Every(decision.predictionStages)
    /\ (decision.scamCheck = <<>> \/ ~decision.scamCheck[1].isScam)

\* const scamSafe = !decision.scamCheck || !decision.scamCheck.isScam
ScamSafe(decision) == decision.scamCheck = <<>> \/ ~decision.scamCheck[1].isScam

\* const approved = allStagesPassed && scamSafe
Approved(decision) == Every(decision.predictionStages) /\ ScamSafe(decision)

\* the risk read off the confidence alone, the verdict ignored
RiskAssessmentByConfidence(approved, confidence) ==
    IF confidence >= LowRiskConfidence THEN "low" ELSE "moderate"

\* approved ? (decision.confidence >= 80 ? "low" : "moderate") : "high"
RiskAssessment(approved, confidence) ==
    IF approved
    THEN (IF confidence >= LowRiskConfidence THEN "low" ELSE "moderate")
    ELSE "high"

TradeObservations(decision) ==
    << "Token: " \o Slice(decision.tokenMint, MintPrefixLen) \o "...",
       "Action: " \o ToUpperCase(decision.action),
       "Amount: " \o ToString(decision.amount) >>
    \o [i \in 1..Len(decision.predictionStages) |->
          LET st == decision.predictionStages[i]
          IN  st.name \o ": " \o (IF st.passed THEN "PASS" ELSE "FAIL")
                \o " (" \o ToString(st.confidence) \o "% confidence) - "
                \o st.reason]
    \o (IF decision.scamCheck # <<>>
        THEN << "Scam check: " \o ToUpperCase(decision.scamCheck[1].riskLevel)
                  \o " - " \o Join(decision.scamCheck[1].checks, ", ") >>
        ELSE <<>>)
    \o (IF decision.cyclicSignal # <<>>
        THEN << "Cyclic signal: " \o ToString(decision.cyclicSignal[1].alignment)
                  \o "% alignment in " \o decision.cyclicSignal[1].window
                  \o " window" >>
        ELSE <<>>)

Alternative(action, reasonRejected) ==
    JObj(<< <<"action", JStr(action)>>,
            <<"reasonRejected", JStr(reasonRejected)>> >>)

TradeAlternatives(decision, approved) ==
    IF approved
    THEN << Alternative("Reject trade",
                        "All prediction stages passed and scam check is clean"),
            Alternative("Wait for more confirmations",
                        "Confidence at " \o ToString(decision.confidence)
                          \o "%, all "
                          \o ToString(Len(decision.predictionStages))
                          \o " stages confirmed") >>
    ELSE LET failedStages == FailedStages(decision.predictionStages)
         IN  << Alternative(
                  "Execute " \o decision.action \o " anyway",
                  IF Len(failedStages) > 0
                  THEN ToString(Len(failedStages))
                         \o " prediction stage(s) failed: "
                         \o Join(StageNames(failedStages), ", ")
                  ELSE "Scam check flagged this token") >>

DataSource(name, queriedAt, summary) ==
    JObj(<< <<"name", JStr(name)>>,
            <<"type", JStr("internal")>>,
            <<"queriedAt", JStr(queriedAt)>>,
            <<"summary", JStr(summary)>> >>)

TradeDataSources(decision, clock) ==
    << DataSource("Multi-Stage Prediction Gate", ToISOString(clock),
                  ToString(Len(PassedStages(decision.predictionStages)))
                    \o "/" \o ToString(Len(decision.predictionStages))
                    \o " stages passed") >>
    \o (IF decision.scamCheck # <<>>
        THEN << DataSource("Scam & Liquidity Defense", ToISOString(clock),
                           "Risk level: " \o decision.scamCheck[1].riskLevel) >>
        ELSE <<>>)
    \o (IF decision.cyclicSignal # <<>>
        THEN << DataSource("Cyclic Signal Layer", ToISOString(clock),
                           ToString(decision.cyclicSignal[1].alignment)
                             \o "% alignment in "
                             \o decision.cyclicSignal[1].window) >>
        ELSE <<>>)

TradeLogic(decision, approved) ==
    IF approved
    THEN "All " \o ToString(Len(decision.predictionStages))
           \o " prediction stages passed. "
           \o (IF ScamSafe(decision) THEN "Scam check clean. " ELSE "")
           \o "Confidence: " \o ToString(decision.confidence)
           \o "%. Trade approved."
    ELSE "Trade blocked by safety gate. "
           \o (IF FailedStages(decision.predictionStages) # <<>>
               THEN "Failed stages: "
                      \o Join(StageNames(FailedStages(decision.predictionStages)),
                              ", ")
                      \o ". "
               ELSE "")
           \o (IF ~ScamSafe(decision)
               THEN "Scam check: " \o decision.scamCheck[1].riskLevel \o ". "
               ELSE "")
           \o "No override allowed."

StringArray(strs) == JArr([i \in 1..Len(strs) |-> JStr(strs[i])])

\* createTradeReasoningTrace(decision), the clock reading `clock`
createTradeReasoningTrace(decision, clock) ==
    LET approved == Approved(decision)
    IN  JObj(<<
          <<"version", JStr(SOLPRISM_SCHEMA_VERSION)>>,
          <<"agent", JStr("AgentShield")>>,
          <<"timestamp", JNum(clock)>>,
          <<"action", JObj(<<
              <<"type", JStr(IF approved THEN "trade" ELSE "rejection")>>,
              <<"description", JStr(
                  IF approved
                  THEN "APPROVED: " \o decision.action \o " "
                         \o ToString(decision.amount) \o " of "
                         \o Slice(decision.tokenMint, MintPrefixLen) \o "..."
                  ELSE "REJECTED: " \o decision.action
                         \o " blocked by safety gate")>> >>)>>,
          <<"inputs", JObj(<<
              <<"dataSources", JArr(TradeDataSources(decision, clock))>>,
              <<"context",
                JStr("AgentShield multi-stage safety gate evaluation")>> >>)>>,
          <<"analysis", JObj(<<
              <<"observations", StringArray(TradeObservations(decision))>>,
              <<"logic", JStr(TradeLogic(decision, approved))>>,
              <<"alternativesConsidered",
                JArr(TradeAlternatives(decision, approved))>> >>)>>,
          <<"decision", JObj(<<
              <<"actionChosen", JStr(
                  IF approved
                  THEN decision.action \o " " \o ToString(decision.amount)
                  ELSE "REJECT - trade blocked")>>,
              <<"confidence", JNum(decision.confidence)>>,
              <<"riskAssessment",
                JStr(RiskAssessment(approved, decision.confidence))>>,
              <<"expectedOutcome", JStr(
                  IF approved
                  THEN "Execute " \o decision.action \o " with "
                         \o ToString(decision.confidence) \o "% confidence"
                  ELSE "Trade rejected, funds protected")>> >>)>>,
          <<"metadata", JObj(<<
              <<"custom", JObj(<<
                  <<"stagesPassed",
                    JNum(Len(PassedStages(decision.predictionStages)))>>,
                  <<"totalStages", JNum(Len(decision.predictionStages))>>,
                  <<"scamRisk", JStr(IF decision.scamCheck # <<>>
                                     THEN decision.scamCheck[1].riskLevel
                                     ELSE "unchecked")>>,
                  <<"approved", JBool(approved)>> >>)>> >>)>> >>)

FirewallObservations(params) ==
    << "Transaction type: " \o params.transactionType,
       "Simulation: " \o (IF params.simulated
                          THEN (IF params.simulationPassed THEN "PASS"
                                ELSE "FAIL")
                          ELSE "SKIPPED"),
       "Spend limit: " \o (IF params.spendLimitOk THEN "OK" ELSE "EXCEEDED"),
       "Slippage: " \o (IF params.slippageOk THEN "OK" ELSE "EXCEEDED"),
       "Program allowlist: "
         \o (IF params.programAllowed THEN "ALLOWED" ELSE "BLOCKED") >>

\* createFirewallTrace(params), the clock reading `clock`
createFirewallTrace(params, clock) ==
    JObj(<<
      <<"version", JStr(SOLPRISM_SCHEMA_VERSION)>>,
      <<"agent", JStr("AgentShield")>>,
      <<"timestamp", JNum(clock)>>,
      <<"action", JObj(<<
          <<"type", JStr(IF params.approved THEN "firewall_allow"
                         ELSE "firewall_deny")>>,
          <<"description", JStr(
              IF params.approved
              THEN "Firewall ALLOW: " \o params.transactionType
              ELSE "Firewall DENY: " \o params.transactionType \o " - "
                     \o params.reason)>> >>)>>,
      <<"inputs", JObj(<<
          <<"dataSources",
            JArr(<< DataSource("Transaction Firewall", ToISOString(clock),
                               params.reason) >>)>>,
          <<"context",
            JStr("AgentShield transaction firewall evaluation")>> >>)>>,
      <<"analysis", JObj(<<
          <<"observations", StringArray(FirewallObservations(params))>>,
          <<"logic", JStr(params.reason)>>,
          <<"alternativesConsidered", JArr(
              IF params.approved
              THEN << Alternative("Block transaction",
                                  "All firewall checks passed") >>
              ELSE << Alternative("Allow transaction", params.reason) >>)>> >>)>>,
      <<"decision", JObj(<<
          <<"actionChosen", JStr(IF params.approved THEN "ALLOW" ELSE "DENY")>>,
          <<"confidence", JNum(IF params.approved THEN FirewallAllowConfidence
                                ELSE FirewallDenyConfidence)>>,
          <<"riskAssessment", JStr(IF params.approved THEN "low" ELSE "high")>>,
          <<"expectedOutcome", JStr(
              IF params.approved THEN "Transaction executed safely"
              ELSE "Transaction blocked, funds protected")>> >>)>> >>)

(***************************************************************************)
(* Inputs.                                                                 *)
(***************************************************************************)
Shields == {"s1", "s2"}

Callers == {"c1", "c2"}

\* new SolprismShield(config): config.agentName || "AgentShield"
AgentNameOf(config) == IF config = <<>> THEN "AgentShield" ELSE config[1]

agentName == [s \in Shields |->
                AgentNameOf(IF s = "s1" THEN << "my-agent-shield" >> ELSE <<>>)]

MintSol == << "S", "o", "1", "1", "1", "1", "1", "1", "1", "1", "2" >>

Stage(name, passed, confidence, reason) ==
    [name |-> name, passed |-> passed, confidence |-> confidence,
     reason |-> reason]

ScamCheck(isScam, riskLevel) ==
    [tokenMint |-> "So111...", isScam |-> isScam,
     checks |-> << "liquidity-ok", "holders-diverse" >>,
     riskLevel |-> riskLevel]

TradeDecision(mint, action, stages, scamCheck, cyclicSignal, confidence) ==
    [tokenMint |-> mint, action |-> action, amount |-> 1,
     predictionStages |-> stages, scamCheck |-> scamCheck,
     cyclicSignal |-> cyclicSignal, confidence |-> confidence]

\* the decision the store is driven with
ApprovedDecision ==
    TradeDecision(MintSol, "buy",
                  << Stage("10min-confirm", TRUE, 85, "Uptrend confirmed"),
                     Stage("5min-validate", TRUE, 78, "Secondary signal holds") >>,
                  << ScamCheck(FALSE, "safe") >>, <<>>, 82)

StoreDecisions == {ApprovedDecision}

FirewallParams(approved, reason) ==
    [transactionType |-> "swap", simulated |-> TRUE,
     simulationPassed |-> approved, spendLimitOk |-> TRUE, slippageOk |-> TRUE,
     programAllowed |-> TRUE, approved |-> approved, reason |-> reason]

StoreFirewallParams == {FirewallParams(FALSE, "Simulation failed")}

\* a ReasoningTrace a caller wrote by hand, every optional field present
FixtureTrace ==
    JObj(<<
      <<"version", JStr(SOLPRISM_SCHEMA_VERSION)>>,
      <<"agent", JStr("my-agent-shield")>>,
      <<"timestamp", JNum(0)>>,
      <<"action", JObj(<< <<"type", JStr("trade")>>,
                          <<"description", JStr("manual buy")>>,
                          <<"transactionSignature", JStr("5sig")>> >>)>>,
      <<"inputs", JObj(<<
          <<"dataSources",
            JArr(<< DataSource("oracle", ToISOString(0), "price ok") >>)>>,
          <<"context", JStr("manual")>> >>)>>,
      <<"analysis", JObj(<<
          <<"observations", StringArray(<< "price rising", "volume high" >>)>>,
          <<"logic", JStr("momentum")>>,
          <<"alternativesConsidered",
            JArr(<< Alternative("hold", "momentum is strong") >>)>> >>)>>,
      <<"decision", JObj(<< <<"actionChosen", JStr("buy 1")>>,
                            <<"confidence", JNum(70)>>,
                            <<"riskAssessment", JStr("moderate")>>,
                            <<"expectedOutcome", JStr("profit")>> >>)>>,
      <<"metadata", JObj(<<
          <<"model", JStr("m1")>>,
          <<"sessionId", JStr("sess-1")>>,
          <<"executionTimeMs", JNum(12)>>,
          <<"custom", JObj(<< <<"approved", JBool(TRUE)>>,
                              <<"scamRisk", JStr("safe")>> >>)>> >>)>> >>)

\* a trace without the optional metadata, from another agent
FixtureBare ==
    JObj(<<
      <<"version", JStr(SOLPRISM_SCHEMA_VERSION)>>,
      <<"agent", JStr("other-agent")>>,
      <<"timestamp", JNum(0)>>,
      <<"action", JObj(<< <<"type", JStr("rejection")>>,
                          <<"description", JStr("manual reject")>> >>)>>,
      <<"inputs", JObj(<< <<"dataSources", JArr(<<>>)>>,
                          <<"context", JStr("manual")>> >>)>>,
      <<"analysis", JObj(<<
          <<"observations", StringArray(<< "price falling" >>)>>,
          <<"logic", JStr("trend")>>,
          <<"alternativesConsidered", JArr(<<>>)>> >>)>>,
      <<"decision", JObj(<< <<"actionChosen", JStr("REJECT")>>,
                            <<"confidence", JNum(55)>>,
                            <<"riskAssessment", JStr("high")>>,
                            <<"expectedOutcome", JStr("funds protected")>> >>)>> >>)

\* the traces handed to commit(trace) directly
CommitTraces == {FixtureTrace}

(***************************************************************************)
(* What a caller does to a trace it holds before calling verify.           *)
(***************************************************************************)
\* the path leads to a value of v: a key for an object, an index for an array
RECURSIVE PathExists(_, _)
PathExists(v, path) ==
    IF Len(path) = 0 THEN TRUE
    ELSE IF v.k = "obj"
         THEN HasKey(v, Head(path)) /\ PathExists(Get(v, Head(path)), Tail(path))
    ELSE IF v.k = "arr"
         THEN Head(path) \in 1..Len(v.kv)
                /\ PathExists(v.kv[Head(path)], Tail(path))
    ELSE FALSE

\* a leaf given another value of its type
MutateLeaf(v) ==
    CASE v.k = "str" -> JStr(v.s \o "!")
      [] v.k = "num" -> JNum(v.n + 1)
      [] v.k = "bool" -> JBool(v.n = 0)

\* a deep copy of v with the leaf at path mutated
RECURSIVE MutateAt(_, _)
MutateAt(v, path) ==
    IF Len(path) = 0 THEN MutateLeaf(v)
    ELSE IF v.k = "obj"
         THEN JObj([i \in 1..Len(v.kv) |->
                      IF v.kv[i][1] = Head(path)
                      THEN <<v.kv[i][1], MutateAt(v.kv[i][2], Tail(path))>>
                      ELSE v.kv[i]])
    ELSE JArr([i \in 1..Len(v.kv) |->
                 IF i = Head(path) THEN MutateAt(v.kv[i], Tail(path))
                 ELSE v.kv[i]])

\* the same object built with its keys inserted in the opposite order
ReverseKeys(o) == JObj([i \in 1..Len(o.kv) |-> o.kv[Len(o.kv) + 1 - i]])

\* v rebuilt with the object at path built in the opposite key order
RECURSIVE ReorderAt(_, _)
ReorderAt(v, path) ==
    IF Len(path) = 0 THEN ReverseKeys(v)
    ELSE JObj([i \in 1..Len(v.kv) |->
                 IF v.kv[i][1] = Head(path)
                 THEN <<v.kv[i][1], ReorderAt(v.kv[i][2], Tail(path))>>
                 ELSE v.kv[i]])

\* leaves at every nesting depth
LeafPaths ==
    << << "agent" >>,
       << "timestamp" >>,
       << "action", "type" >>,
       << "decision", "confidence" >>,
       << "analysis", "observations", 1 >>,
       << "metadata", "custom", "approved" >> >>

\* objects at every nesting depth
ObjectPaths ==
    << <<>>,
       << "action" >>,
       << "inputs" >>,
       << "analysis" >>,
       << "decision" >>,
       << "metadata", "custom" >> >>

(***************************************************************************)
(* The SolprismShield commitment store.                                    *)
(*                                                                         *)
(* results   the CommitmentResult objects allocated so far; an object's    *)
(*           index is its identity (a reference)                           *)
(* arrays    the array objects: arrays[s] is this.commitments of shield s, *)
(*           arrays["snapshot"] the array the last getCommitments() built; *)
(*           both hold references into results                             *)
(* snapRef   the array object the auditing caller's variable refers to     *)
(* now       the value Date.now() returns                                  *)
(* calls     the commit calls made so far, in call order, each with its    *)
(*           caller, its shield and the result it returned (history)       *)
(* last      the last call made and what it returned                       *)
(***************************************************************************)
ArrayIds == Shields \cup {"snapshot"}

NoTrace == JObj(<<>>)

Call(op, kind, ref, hash, trace, ret, input) ==
    [op |-> op, kind |-> kind, ref |-> ref, hash |-> hash, trace |-> trace,
     ret |-> ret, input |-> input]

Init ==
    /\ now = 0
    /\ results = <<>>
    /\ arrays = [a \in ArrayIds |-> <<>>]
    /\ snapRef = "none"
    /\ calls = <<>>
    /\ last = Call("new", "", 0, "", NoTrace, FALSE, <<>>)

\* the wall clock advances between calls
Tick ==
    /\ now < MaxClock
    /\ now' = now + 1
    /\ UNCHANGED <<results, arrays, snapRef, calls, last>>

\* const result = { hash, trace, timestamp: Date.now() }
CommitmentResultOf(trace, clock) ==
    [hash |-> hashTrace(trace), trace |-> trace, timestamp |-> clock]

\* unshift in place of push
PushFront(arr, ref) == <<ref>> \o arr

\* the last slot written over instead of a new one added
PushOverLast(arr, ref) ==
    IF arr = <<>> THEN <<ref>> ELSE [arr EXCEPT ![Len(arr)] = ref]

\* this.commitments.push(result)
Push(arr, ref) == Append(arr, ref)

\* commit(trace), called by c on shield s; `op` names the entry point
CommitAs(op, c, s, trace) ==
    /\ Len(results) < MaxCommits
    /\ LET result == CommitmentResultOf(trace, now)
           ref == Len(results) + 1
       IN  /\ results' = Append(results, result)
           /\ arrays' = [arrays EXCEPT ![s] = Push(@, ref)]
           /\ calls' = Append(calls, [caller |-> c, shield |-> s, ref |-> ref,
                                      result |-> result])
           /\ last' = Call(op, "", ref, result.hash, trace, FALSE, << s >>)
    /\ UNCHANGED <<now, snapRef>>

Commit(c, s, trace) == CommitAs("commit", c, s, trace)

\* commitTradeDecision: createTradeReasoningTrace, then commit
CommitTradeDecision(c, s, decision) ==
    CommitAs("commitTradeDecision", c, s,
             createTradeReasoningTrace(decision, now))

\* commitFirewallDecision: createFirewallTrace, then commit
CommitFirewallDecision(c, s, params) ==
    CommitAs("commitFirewallDecision", c, s, createFirewallTrace(params, now))

\* the hash recomputed without the replacer
VerifyResultOwnKeys(s, hash, trace) == sha256(SerializeOwn(trace)) = hash

\* the pair is also looked up in the store
VerifyResultStored(s, hash, trace) ==
    /\ hashTrace(trace) = hash
    /\ \E i \in 1..Len(arrays[s]) : results[arrays[s][i]].hash = hash

\* const valid = hashTrace(trace) === hash, in shield s
VerifyResult(s, hash, trace) == hashTrace(trace) = hash

\* verify(hash, trace) on shield s; `kind` and `ref` say where the caller
\* took the pair from
Verify(s, kind, ref, hash, trace) ==
    /\ last' = Call("verify", kind, ref, hash, trace,
                    VerifyResult(s, hash, trace), << s >>)
    /\ UNCHANGED <<now, results, arrays, snapRef, calls>>

\* verify(r.hash, r.trace) of a committed result r
VerifyCommitted(s, ref) ==
    Verify(s, "committed", ref, results[ref].hash, results[ref].trace)

\* verify(r.hash, copy) with one leaf of a deep copy of r.trace mutated
VerifyMutated(s, ref, p) ==
    /\ PathExists(results[ref].trace, LeafPaths[p])
    /\ Verify(s, "mutated", ref, results[ref].hash,
              MutateAt(results[ref].trace, LeafPaths[p]))

\* verify(r.hash, rebuilt) with r.trace rebuilt in another key order
VerifyReordered(s, ref, p) ==
    /\ PathExists(results[ref].trace, ObjectPaths[p])
    /\ Verify(s, "reordered", ref, results[ref].hash,
              ReorderAt(results[ref].trace, ObjectPaths[p]))

\* verify(hashTrace(t1), t2) with a hash the caller computed itself
VerifyFresh(s, t1, t2) == Verify(s, "fresh", 0, hashTrace(t1), t2)

\* verify with a hash that is no digest
VerifyGarbage(s, trace) == Verify(s, "garbage", 0, "deadbeef", trace)

\* return this.commitments: the store's own array handed out
SnapshotAlias(s) == s

\* the array object getCommitments() returns: a new one
SnapshotOf(s) == "snapshot"

\* getCommitments() on shield s: [...this.commitments]
GetCommitments(s) ==
    /\ arrays' = [arrays EXCEPT !["snapshot"] = arrays[s]]
    /\ snapRef' = SnapshotOf(s)
    /\ last' = Call("getCommitments", "", 0, "", NoTrace, FALSE, << s >>)
    /\ UNCHANGED <<now, results, calls>>

\* the caller changes the array it was returned: push, pop, element write
SnapshotPush(ref) ==
    /\ snapRef # "none"
    /\ Len(arrays[snapRef]) < MaxCommits + MaxSnapExtra
    /\ arrays' = [arrays EXCEPT ![snapRef] = Append(@, ref)]
    /\ last' = Call("snapshot.push", "", 0, "", NoTrace, FALSE, <<>>)
    /\ UNCHANGED <<now, results, snapRef, calls>>

SnapshotPop ==
    /\ snapRef # "none"
    /\ arrays[snapRef] # <<>>
    /\ arrays' = [arrays EXCEPT
                    ![snapRef] = SubSeq(@, 1, Len(@) - 1)]
    /\ last' = Call("snapshot.pop", "", 0, "", NoTrace, FALSE, <<>>)
    /\ UNCHANGED <<now, results, snapRef, calls>>

SnapshotAssign(i, ref) ==
    /\ snapRef # "none"
    /\ i \in 1..Len(arrays[snapRef])
    /\ arrays[snapRef][i] # ref
    /\ arrays' = [arrays EXCEPT ![snapRef][i] = ref]
    /\ last' = Call("snapshot[i]=", "", 0, "", NoTrace, FALSE, <<>>)
    /\ UNCHANGED <<now, results, snapRef, calls>>

\* the caller writes a field of an entry it reached through the array:
\* entry.hash = "deadbeef", entry.trace = another trace, entry.timestamp = -1
WriteEntry(i, field) ==
    /\ snapRef # "none"
    /\ i \in 1..Len(arrays[snapRef])
    /\ LET ref == arrays[snapRef][i]
       IN  /\ results' =
                 [results EXCEPT
                    ![ref] = CASE field = "hash" ->
                                    [@ EXCEPT !.hash = "deadbeef"]
                               [] field = "trace" ->
                                    [@ EXCEPT !.trace = FixtureBare]
                               [] field = "timestamp" ->
                                    [@ EXCEPT !.timestamp = -1]]
           /\ last' = Call("entry.write", field, ref, "", NoTrace, FALSE, <<>>)
    /\ UNCHANGED <<now, arrays, snapRef, calls>>

CommitStep(callers, shields) ==
    \E c \in callers, s \in shields :
        \/ \E trace \in CommitTraces : Commit(c, s, trace)
        \/ \E decision \in StoreDecisions : CommitTradeDecision(c, s, decision)
        \/ \E params \in StoreFirewallParams :
               CommitFirewallDecision(c, s, params)

SnapshotStep(shields) ==
    \/ \E s \in shields : GetCommitments(s)
    \/ \E ref \in 1..Len(results) : SnapshotPush(ref)
    \/ SnapshotPop
    \/ \E i \in 1..MaxCommits + MaxSnapExtra, ref \in 1..Len(results) :
           SnapshotAssign(i, ref)

WriteStep ==
    \E i \in 1..MaxCommits + MaxSnapExtra,
       field \in {"hash", "trace", "timestamp"} : WriteEntry(i, field)

\* one caller using one shield through its methods
Next ==
    \/ Tick
    \/ CommitStep({"c1"}, {"s1"})
    \/ \E ref \in 1..Len(results) : VerifyCommitted("s1", ref)
    \/ VerifyGarbage("s1", FixtureTrace)
    \/ GetCommitments("s1")

Spec == Init /\ [][Next]_vars

\* a caller that changes the arrays getCommitments() returned to it
NextSnapshot == CommitStep({"c1"}, {"s1"}) \/ SnapshotStep({"s1"})

SpecSnapshot == Init /\ [][NextSnapshot]_vars

\* two shields, and verify called on either with pairs committed to one of
\* them, pairs never committed, and a hash that is no digest
NextVerify ==
    \/ Tick
    \/ CommitStep({"c1"}, Shields)
    \/ \E s \in Shields :
           \/ \E ref \in 1..Len(results) : VerifyCommitted(s, ref)
           \/ \E t \in {FixtureTrace, FixtureBare} :
                  VerifyFresh(s, FixtureTrace, t)
           \/ VerifyGarbage(s, FixtureBare)

SpecVerify == Init /\ [][NextVerify]_vars

\* verify called with a committed hash and a changed copy of its trace
NextHash ==
    \/ Tick
    \/ CommitStep({"c1"}, {"s1"})
    \/ \E ref \in 1..Len(results) :
           \/ \E p \in 1..Len(LeafPaths) : VerifyMutated("s1", ref, p)
           \/ \E p \in 1..Len(ObjectPaths) : VerifyReordered("s1", ref, p)

SpecHash == Init /\ [][NextHash]_vars

\* several callers committing to the same shields, their calls interleaved
\* (a call runs to completion: commit is synchronous)
NextConcurrent == Tick \/ CommitStep(Callers, Shields)

SpecConcurrent == Init /\ [][NextConcurrent]_vars

\* a caller that also writes to the entries it reaches through the array
NextAliased ==
    \/ Tick
    \/ CommitStep({"c1"}, {"s1"})
    \/ GetCommitments("s1")
    \/ WriteStep

SpecAliased == Init /\ [][NextAliased]_vars

(***************************************************************************)
(* The trace builders applied to every decision of a bounded set.          *)
(***************************************************************************)
\* a TradeDecision has at most MaxStages prediction stages
MaxStages == 2

StageLists ==
    UNION {[1..n -> BOOLEAN] : n \in 0..MaxStages}

StagesOf(passes) ==
    [i \in 1..Len(passes) |->
       Stage("stage-" \o ToString(i), passes[i], 85, "reason")]

BuilderDecisions ==
    {TradeDecision(mint, action, StagesOf(passes), scamCheck, cyclicSignal,
                   confidence) :
       mint \in {MintSol},
       action \in {"buy", "sell", "hold"},
       passes \in StageLists,
       scamCheck \in {<<>>, << ScamCheck(FALSE, "suspicious") >>,
                      << ScamCheck(TRUE, "dangerous") >>},
       cyclicSignal \in {<<>>, << [alignment |-> 70, window |-> "1h"] >>},
       confidence \in {79, 80}}

BuilderParams ==
    {[transactionType |-> "swap", simulated |-> b[1], simulationPassed |-> b[2],
      spendLimitOk |-> b[3], slippageOk |-> TRUE, programAllowed |-> TRUE,
      approved |-> b[4], reason |-> "policy"] :
       b \in BOOLEAN \X BOOLEAN \X BOOLEAN \X BOOLEAN}

CreateTrade(decision) ==
    /\ last' = Call("createTradeReasoningTrace", "", 0, "",
                    createTradeReasoningTrace(decision, now), FALSE,
                    << decision >>)
    /\ UNCHANGED <<now, results, arrays, snapRef, calls>>

CreateFirewall(params) ==
    /\ last' = Call("createFirewallTrace", "", 0, "",
                    createFirewallTrace(params, now), FALSE, << params >>)
    /\ UNCHANGED <<now, results, arrays, snapRef, calls>>

NextBuilder ==
    \/ Tick
    \/ \E decision \in BuilderDecisions : CreateTrade(decision)
    \/ \E params \in BuilderParams : CreateFirewall(params)

SpecBuilder == Init /\ [][NextBuilder]_vars

(***************************************************************************)
(* Properties.                                                             *)
(***************************************************************************)
SnapshotOps == {"snapshot.push", "snapshot.pop", "snapshot[i]="}

\* what a getCommitments() call on shield s would show: the entries of the
\* store's array, each with the fields it has now
Observed(s) == [i \in 1..Len(arrays[s]) |-> results[arrays[s][i]]]

\* the commit calls made on shield s, in call order
CallsOn(s) == SelectSeq(calls, LAMBDA call : call.shield = s)

\* the commit calls caller c made, in call order
CallsBy(c) == SelectSeq(calls, LAMBDA call : call.caller = c)

\* C1: a trace that differs from a committed trace T in one leaf field, at
\* any nesting depth, has another hash, so verify(commit(T).hash, T') returns
\* false.
C1_MutatedTraceFailsVerify ==
    (last.op = "verify" /\ last.kind = "mutated") =>
        /\ last.trace # results[last.ref].trace
        /\ hashTrace(last.trace) # hashTrace(results[last.ref].trace)
        /\ last.ret = FALSE

\* C2: verify(r.hash, r.trace) returns true for every result r that commit
\* returned, whatever commit, verify and getCommitments calls (and whatever
\* changes of the returned arrays) happened in between.
C2_CommittedPairVerifies ==
    /\ (last.op = "verify" /\ last.kind = "committed") => last.ret = TRUE
    /\ \A i \in 1..Len(calls) :
           VerifyResult(calls[i].shield, calls[i].result.hash,
                        calls[i].result.trace)

C2_Witness ==
    /\ last.op = "verify"
    /\ last.kind = "committed"
    /\ last.ret
    /\ last.ref = 1
    /\ Len(results) = 2
    /\ snapRef # "none"

\* C3: in every reachable state, every CommitmentResult commit returned and
\* every entry the store holds has hash = hashTrace(trace).
C3_StoredHashIsDigest ==
    /\ \A s \in Shields : \A i \in 1..Len(arrays[s]) :
           Observed(s)[i].hash = hashTrace(Observed(s)[i].trace)
    /\ \A i \in 1..Len(calls) :
           results[calls[i].ref].hash = hashTrace(results[calls[i].ref].trace)

\* C4: after n commits on a shield (through commit, commitTradeDecision or
\* commitFirewallDecision) its store holds n entries, entry i being the result
\* the i-th commit returned, and getCommitments() returns exactly them in that
\* order; no other operation removes or reorders entries.
C4_AppendOnlyInCallOrder ==
    /\ \A s \in Shields :
           /\ Len(arrays[s]) = Len(CallsOn(s))
           /\ \A i \in 1..Len(arrays[s]) :
                  /\ arrays[s][i] = CallsOn(s)[i].ref
                  /\ Observed(s)[i] = CallsOn(s)[i].result
    /\ last.op = "getCommitments" =>
           /\ Len(arrays[snapRef]) = Len(CallsOn(last.input[1]))
           /\ \A i \in 1..Len(arrays[snapRef]) :
                  arrays[snapRef][i] = CallsOn(last.input[1])[i].ref

C4_Witness ==
    /\ last.op = "getCommitments"
    /\ Len(arrays[snapRef]) = 2
    /\ results[arrays[snapRef][1]] # results[arrays[snapRef][2]]
    /\ CallsOn("s1")[1].result.timestamp < CallsOn("s1")[2].result.timestamp

\* C5: nothing a caller does to the value getCommitments() returned, a write
\* to the hash, trace or timestamp of an entry reached through it included,
\* changes what a later getCommitments() shows.
C5_EntryWritesDoNotReachStore ==
    [][(last'.op = "entry.write" \/ last'.op \in SnapshotOps) =>
          \A s \in Shields : Observed(s)' = Observed(s)]_vars

\* C6: appending to, removing from or replacing elements of the array
\* getCommitments() returned changes neither the length nor the elements of
\* what a later getCommitments() returns, and a later commit does not change
\* an array returned earlier.
C6_SnapshotIsolation ==
    [][/\ last'.op \in SnapshotOps =>
             \A s \in Shields : arrays'[s] = arrays[s]
       /\ (Len(results') > Len(results) /\ snapRef # "none") =>
             arrays'[snapRef] = arrays[snapRef]]_vars

C6_Witness ==
    /\ last.op \in SnapshotOps
    /\ snapRef # "none"
    /\ Len(arrays["s1"]) = 2
    /\ Len(arrays[snapRef]) = 1
    /\ arrays[snapRef][1] = 2

\* C7: a trace with the same field values as a committed trace, built with
\* another key insertion order at any depth (the top level, action, inputs,
\* analysis, decision, metadata.custom), has the same hash and verifies
\* against the commitment.
C7_KeyOrderIndependent ==
    (last.op = "verify" /\ last.kind = "reordered") =>
        /\ hashTrace(last.trace) = hashTrace(results[last.ref].trace)
        /\ last.ret = TRUE

C7_Witness ==
    /\ last.op = "verify"
    /\ last.kind = "reordered"
    /\ last.ret
    /\ ObjectKeys(last.trace) # ObjectKeys(results[last.ref].trace)

\* C8: verify(hash, trace) returns hashTrace(trace) = hash whatever the store
\* of the shield holds, and leaves every store as it was.
C8_VerifyIsPureOfItsArguments ==
    [][last'.op = "verify" =>
          /\ last'.ret = (hashTrace(last'.trace) = last'.hash)
          /\ results' = results
          /\ arrays' = arrays]_vars

\* verify returned true on a shield that never committed the pair, for a
\* pair committed to the other shield
C8_Witness ==
    /\ last.op = "verify"
    /\ last.ret
    /\ last.kind = "committed"
    /\ \A i \in 1..Len(arrays[last.input[1]]) :
           Observed(last.input[1])[i].hash # last.hash
    /\ \E s \in Shields : \E i \in 1..Len(arrays[s]) : arrays[s][i] = last.ref

\* C9: commit calls of several callers on one shield, interleaved in any
\* order, drop no entry and keep the order: the store holds one entry per
\* call, each the result returned to its caller, in the order the appends
\* took effect.
C9_ConcurrentCommitsAllKept ==
    \A s \in Shields :
        /\ Len(arrays[s]) = Len(CallsOn(s))
        /\ \A c \in Callers : \A k \in 1..Len(CallsBy(c)) :
               CallsBy(c)[k].shield = s =>
                   \E i \in 1..Len(arrays[s]) :
                       /\ arrays[s][i] = CallsBy(c)[k].ref
                       /\ Observed(s)[i] = CallsBy(c)[k].result
        /\ \A i, j \in 1..Len(arrays[s]) : i < j => arrays[s][i] < arrays[s][j]

C9_Witness ==
    /\ arrays["s1"] = << 1, 2 >>
    /\ Len(CallsBy("c1")) = 1
    /\ Len(CallsBy("c2")) = 1
    /\ CallsBy("c2")[1].ref = 1
    /\ CallsBy("c1")[1].ref = 2

\* C10: createTradeReasoningTrace yields action.type "trade" exactly when
\* every stage passed and no scam check says isScam (an empty stage list
\* included), "rejection" otherwise, and metadata.custom.approved is that
\* verdict.
C10_TradeExactlyWhenApproved ==
    last.op = "createTradeReasoningTrace" =>
        LET decision == last.input[1]
            verdict ==
                /\ \A i \in 1..Len(decision.predictionStages) :
                       decision.predictionStages[i].passed
                /\ (decision.scamCheck = <<>> \/ ~decision.scamCheck[1].isScam)
        IN  /\ Get(Get(last.trace, "action"), "type")
                 = JStr(IF verdict THEN "trade" ELSE "rejection")
            /\ Get(Get(Get(last.trace, "metadata"), "custom"), "approved")
                 = JBool(verdict)

C10_Witness ==
    /\ last.op = "createTradeReasoningTrace"
    /\ last.input[1].predictionStages = <<>>
    /\ last.input[1].scamCheck # <<>>
    /\ Get(Get(last.trace, "action"), "type") = JStr("trade")


\* C11: createTradeReasoningTrace sets decision.riskAssessment to "low" when
\* the decision is approved (every stage passed, no scam check saying isScam)
\* and confidence >= 80, to "moderate" when approved and confidence < 80, and
\* to "high" whenever it is not approved, whatever the confidence; a trace of
\* type "rejection" carries neither "low" nor "moderate".
C11_RiskFollowsVerdictAndConfidence ==
    last.op = "createTradeReasoningTrace" =>
        LET decision == last.input[1]
            verdict ==
                /\ \A i \in 1..Len(decision.predictionStages) :
                       decision.predictionStages[i].passed
                /\ (decision.scamCheck = <<>> \/ ~decision.scamCheck[1].isScam)
            risk == Get(Get(last.trace, "decision"), "riskAssessment")
        IN  /\ (verdict /\ decision.confidence >= 80) => risk = JStr("low")
            /\ (verdict /\ decision.confidence < 80) => risk = JStr("moderate")
            /\ ~verdict => risk = JStr("high")
            /\ Get(Get(last.trace, "action"), "type") = JStr("rejection")
                  => risk \notin {JStr("low"), JStr("moderate")}

\* a rejected decision whose confidence alone would read "low"
C11_Witness ==
    /\ last.op = "createTradeReasoningTrace"
    /\ last.input[1].confidence >= 80
    /\ \E i \in 1..Len(last.input[1].predictionStages) :
           ~last.input[1].predictionStages[i].passed
    /\ Get(Get(last.trace, "action"), "type") = JStr("rejection")
    /\ Get(Get(last.trace, "decision"), "riskAssessment") = JStr("high")

====
